---- MODULE Spec2Model ----
(***************************************************************************)
(* big_fluffy_dise: the block-addressable key store (storage/disk.rs),     *)
(* and the SHAKE256 streaming generator (generation/shake256.rs) that      *)
(* fills it.                                                               *)
(*                                                                         *)
(* The medium is one file of a healthy file system (no spontaneous I/O     *)
(* faults): a byte string, or NoFile.  A DiskStorage owns a file handle    *)
(* with its own cursor.  u64 values that can exceed TLC's integers (the    *)
(* probe index and the offsets computed from it) are kept as four 16-bit   *)
(* limbs, so that the 64-bit wrap-around is the real one.                  *)
(*                                                                         *)
(* A byte string is kept as the sequence of runs it is made of: a run is   *)
(* len consecutive bytes, from position off on, of a byte stream (the      *)
(* output stream of one seed's SHAKE256, the content a test put on the     *)
(* medium, the data a caller appends, or zeros).  Two byte strings are     *)
(* equal when they hold the same positions of the same streams in the      *)
(* same order, which lets the blocks be of the catalog's real sizes.       *)
(***************************************************************************)
EXTENDS Integers, Sequences, FiniteSets, TLC

VARIABLES
    medium,           \* the file at KeyPath: NoFile or its bytes
    stores,           \* StoreIds -> DiskStorage (or Dead)
    last,             \* the call that has just returned (operation, arguments,
                      \* result, I/O made), or Idle between two calls
    hist,             \* history, per store: the bytes its write_all calls
                      \* accepted, whether a probe moved its cursor, and
                      \* whether a finalize of it has succeeded
    runs              \* history: the first successful generate call and the
                      \* medium it left (recorded by SpecGen alone)

vars == <<medium, stores, last, hist, runs>>

----------------------------------------------------------------------------
(* Bounds of the model *)

\* the media a store is opened on hold up to MaxBlocks blocks
MaxBlocks == 3

\* a writer expects up to MaxWriteBlocks blocks
MaxWriteBlocks == 1
\* iterations of the loop of generate followed one by one from its start
MaxLoopBlocks == 3

----------------------------------------------------------------------------
(* traits/types.rs: BlockSize and the catalog *)

BlockSize(bits, bytes) == [bit_len |-> bits, byte_len |-> bytes]

BLOCK_8 == BlockSize(8, 1)
BLOCK_32 == BlockSize(32, 4)
BLOCK_64 == BlockSize(64, 8)
BLOCK_512 == BlockSize(512, 64)
BLOCK_4096 == BlockSize(4096, 512)
\* BLOCK_4K with the bit length of BLOCK_4096
BLOCK_4K_bits_of_4096 == BlockSize(4096, 4096)
BLOCK_4K == BlockSize(32768, 4096)

BLOCKS == <<BLOCK_8, BLOCK_32, BLOCK_64, BLOCK_512, BLOCK_4096, BLOCK_4K>>

Catalog == {BLOCKS[i] : i \in 1..Len(BLOCKS)}

----------------------------------------------------------------------------
(* u64 arithmetic on four 16-bit limbs, least significant first *)

LimbBase == 2 ^ 16

\* a small natural (below 2^31) as a u64
U64(n) == <<n % LimbBase, n \div LimbBase, 0, 0>>

\* 2^e as a u64, 0 <= e < 64
U64Pow2(e) ==
    [i \in 1..4 |-> IF i = (e \div 16) + 1 THEN 2 ^ (e % 16) ELSE 0]

U64Max == <<LimbBase - 1, LimbBase - 1, LimbBase - 1, LimbBase - 1>>

\* x * k for a small k (k <= 4096): the wrapped product and whether it overflowed
U64MulSmall(x, k) ==
    LET t1 == x[1] * k
        t2 == x[2] * k + t1 \div LimbBase
        t3 == x[3] * k + t2 \div LimbBase
        t4 == x[4] * k + t3 \div LimbBase
    IN  [val |-> <<t1 % LimbBase, t2 % LimbBase, t3 % LimbBase, t4 % LimbBase>>,
         overflow |-> t4 \div LimbBase > 0]

\* x + k for a small k: the wrapped sum and whether it overflowed
U64AddSmall(x, k) ==
    LET t1 == x[1] + k
        t2 == x[2] + t1 \div LimbBase
        t3 == x[3] + t2 \div LimbBase
        t4 == x[4] + t3 \div LimbBase
    IN  [val |-> <<t1 % LimbBase, t2 % LimbBase, t3 % LimbBase, t4 % LimbBase>>,
         overflow |-> t4 \div LimbBase > 0]

\* x - 1 for x > 0
U64Pred(x) ==
    IF x[1] > 0 THEN <<x[1] - 1, x[2], x[3], x[4]>>
    ELSE IF x[2] > 0 THEN <<LimbBase - 1, x[2] - 1, x[3], x[4]>>
    ELSE IF x[3] > 0 THEN <<LimbBase - 1, LimbBase - 1, x[3] - 1, x[4]>>
    ELSE <<LimbBase - 1, LimbBase - 1, LimbBase - 1, x[4] - 1>>

\* x - k for a small k (k < 2^16) and x >= k
U64SubSmall(x, k) ==
    IF x[1] >= k THEN <<x[1] - k, x[2], x[3], x[4]>>
    ELSE LET hi == U64Pred(<<0, x[2], x[3], x[4]>>)
         IN  <<x[1] + LimbBase - k, hi[2], hi[3], hi[4]>>

\* x rounded down to a multiple of k, a power of two up to 4096
U64AlignDown(x, k) == <<x[1] - (x[1] % k), x[2], x[3], x[4]>>

U64Gt(a, b) ==
    \/ a[4] > b[4]
    \/ a[4] = b[4] /\ a[3] > b[3]
    \/ a[4] = b[4] /\ a[3] = b[3] /\ a[2] > b[2]
    \/ a[4] = b[4] /\ a[3] = b[3] /\ a[2] = b[2] /\ a[1] > b[1]

\* the value fits the model's naturals (below 2^31)
U64IsSmall(x) == x[4] = 0 /\ x[3] = 0 /\ x[2] < 32768

U64ToNat(x) == x[1] + x[2] * LimbBase

\* the value is a valid file offset (off_t is a signed 64-bit integer)
U64FitsI64(x) == x[4] < 32768

----------------------------------------------------------------------------
(* Results: Ok, a typed BigKeyError (traits/errors.rs), or a panic *)

Ok == [kind |-> "Ok"]

Err(name, fields) == [kind |-> "Err", err |-> name, info |-> fields]

\* impl From<io::Error> for BigKeyError (#[from]): the IoError variant
IoError(e) == Err("IoError", e)

\* an io::Error of the given kind
IoErr(k) == [io_kind |-> k]

Panic(msg) == [kind |-> "Panic", msg |-> msg]

IsOk(r) == r.kind = "Ok"

IsErr(r, name) == r.kind = "Err" /\ r.err = name

IsIoError(r, k) == r.kind = "Err" /\ r.err = "IoError" /\ r.info.io_kind = k

----------------------------------------------------------------------------
(* The file system: one regular path and one path that is a directory *)

NoFile == [exists |-> FALSE]

KeyPath == "key"

\* File::create on it fails (the test expected_size_must_be_ge_block_size uses "/")
DirPath == "/"

Paths == {KeyPath, DirPath}

Bytes(f) == f.bytes

FileOf(bytes) == [exists |-> TRUE, bytes |-> bytes]

Max(a, b) == IF a > b THEN a ELSE b

Min(a, b) == IF a < b THEN a ELSE b

\* n bytes of stream src (of key key) from position off on
Run(src, key, off, n) ==
    IF n = 0 THEN <<>>
    ELSE <<[src |-> src, key |-> key, off |-> IF src = "zero" THEN 0 ELSE off, len |-> n]>>

Zeros(n) == Run("zero", 0, 0, n)

\* the number of bytes of a byte string
RECURSIVE BLen(_)
BLen(bytes) == IF bytes = <<>> THEN 0 ELSE Head(bytes).len + BLen(Tail(bytes))

\* r2 continues r1 in the same stream
Continues(r1, r2) ==
    /\ r1.src = r2.src
    /\ r1.key = r2.key
    /\ r1.src = "zero" \/ r2.off = r1.off + r1.len

\* concatenation of two byte strings
BConcat(a, b) ==
    IF a = <<>> THEN b
    ELSE IF b = <<>> THEN a
    ELSE IF Continues(a[Len(a)], Head(b))
    THEN SubSeq(a, 1, Len(a) - 1)
         \o <<[a[Len(a)] EXCEPT !.len = a[Len(a)].len + Head(b).len]>>
         \o Tail(b)
    ELSE a \o b

\* the n bytes from position pos on (0-based), as far as there are bytes
RECURSIVE BSlice(_, _, _)
BSlice(bytes, pos, n) ==
    IF n <= 0 \/ bytes = <<>> THEN <<>>
    ELSE LET r == Head(bytes)
         IN  IF pos >= r.len THEN BSlice(Tail(bytes), pos - r.len, n)
             ELSE BConcat(Run(r.src, r.key, r.off + pos, Min(n, r.len - pos)),
                          BSlice(Tail(bytes), 0, n - Min(n, r.len - pos)))

\* pwrite semantics of a write at the cursor: overwrite, extend, zero-fill a hole
WriteAt(bytes, pos, data) ==
    BConcat(BConcat(BConcat(BSlice(bytes, 0, pos), Zeros(Max(0, pos - BLen(bytes)))),
                    data),
            BSlice(bytes, pos + BLen(data), BLen(bytes)))

\* an open that creates the file it does not find
FileOpenOrCreate(path, m) ==
    IF path = KeyPath
    THEN [result |-> Ok, file |-> [path |-> path, pos |-> 0, access |-> "r"],
          medium |-> IF m.exists THEN m ELSE FileOf(<<>>)]
    ELSE [result |-> IoErr("NotFound"), file |-> NoFile, medium |-> m]

\* File::open: a read-only handle, cursor 0
FileOpen(path, m) ==
    IF path = KeyPath /\ m.exists
    THEN [result |-> Ok, file |-> [path |-> path, pos |-> 0, access |-> "r"], medium |-> m]
    ELSE [result |-> IoErr("NotFound"), file |-> NoFile, medium |-> m]

\* File::create: a write-only handle, cursor 0; creates the file or truncates it
FileCreate(path, m) ==
    IF path = KeyPath
    THEN [result |-> Ok, file |-> [path |-> path, pos |-> 0, access |-> "w"],
          medium |-> FileOf(<<>>)]
    ELSE [result |-> IoErr("IsADirectory"), file |-> NoFile, medium |-> m]

\* Read::read_exact at the cursor: all of the buffer, or UnexpectedEof after
\* taking what is there
ReadExact(file, m, buf) ==
    LET n == BLen(buf)
        avail == Max(0, Min(n, BLen(Bytes(m)) - file.pos))
    IN  IF file.access # "r"
        THEN [result |-> IoErr("BadFileDescriptor"), file |-> file, out |-> buf]
        ELSE [result |-> IF avail = n THEN Ok ELSE IoErr("UnexpectedEof"),
              file |-> [file EXCEPT !.pos = file.pos + avail],
              out |-> BConcat(BSlice(Bytes(m), file.pos, avail),
                              BSlice(buf, avail, n - avail))]

\* Seek::seek(SeekFrom::Start(offset)): lseek rejects an offset above i64::MAX.
\* The cursor is a natural of the model: an offset probe() lets through is
\* either within big_key_length or, after a wrapped addition, above i64::MAX.
FileSeek(file, offset) ==
    IF U64FitsI64(offset) /\ U64IsSmall(offset)
    THEN [result |-> Ok, file |-> [file EXCEPT !.pos = U64ToNat(offset)]]
    ELSE [result |-> IoErr("InvalidInput"), file |-> file]

\* Write::write_all at the cursor
FileWriteAll(file, m, data) ==
    IF file.access # "w"
    THEN [result |-> IoErr("BadFileDescriptor"), file |-> file, medium |-> m]
    ELSE [result |-> Ok,
          file |-> [file EXCEPT !.pos = file.pos + BLen(data)],
          medium |-> FileOf(WriteAt(Bytes(m), file.pos, data))]

----------------------------------------------------------------------------
(* storage/util.rs *)

\* check_key_evenly_divisible: Ok, or an io::Error of kind InvalidInput
check_key_evenly_divisible(block_size, key_len) ==
    IF key_len % block_size.byte_len # 0
    THEN [result |-> IoErr("InvalidInput")]
    ELSE [result |-> Ok]

----------------------------------------------------------------------------
(* storage/disk.rs: DiskStorage *)

Dead == [live |-> FALSE]

DiskStorage(block_size, big_key_length, big_key_file) ==
    [live |-> TRUE, block_size |-> block_size, big_key_length |-> big_key_length,
     big_key_file |-> big_key_file]

\* DiskStorage::new without its call of check_key_evenly_divisible
DiskStorage_new_unchecked(block_size, storage_location, expected_size, mode, m) ==
    LET f == IF mode = "READ" THEN FileOpen(storage_location, m)
             ELSE FileCreate(storage_location, m)
        io1 == IF mode = "READ" THEN <<"open", "metadata">> ELSE <<"create">>
    IN  IF f.result # Ok
        THEN [result |-> IoError(f.result), store |-> Dead, medium |-> f.medium,
              io |-> <<io1[1]>>]
        ELSE [result |-> Ok,
              store |-> DiskStorage(block_size,
                                    IF mode = "READ" THEN BLen(Bytes(f.medium))
                                    ELSE expected_size,
                                    f.file),
              medium |-> f.medium, io |-> io1]

\* DiskStorage::new.  io lists the calls made on the medium, in order.  The only
\* route from check_key_evenly_divisible's io::Error to the function's
\* BigKeyError is the From<io::Error> conversion, the IoError variant.
DiskStorage_new(block_size, storage_location, expected_size, mode, m) ==
    LET f == IF mode = "READ" THEN FileOpen(storage_location, m)
             ELSE FileCreate(storage_location, m)
        io1 == IF mode = "READ" THEN <<"open">> ELSE <<"create">>
    IN  IF f.result # Ok
        THEN [result |-> IoError(f.result), store |-> Dead, medium |-> f.medium, io |-> io1]
        ELSE LET big_key_length == IF mode = "READ" THEN BLen(Bytes(f.medium))
                                   ELSE expected_size
                 io2 == IF mode = "READ" THEN io1 \o <<"metadata">> ELSE io1
                 chk == check_key_evenly_divisible(block_size, big_key_length)
             IN  IF chk.result # Ok
                 THEN [result |-> IoError(chk.result), store |-> Dead,
                       medium |-> f.medium, io |-> io2]
                 ELSE [result |-> Ok,
                       store |-> DiskStorage(block_size, big_key_length, f.file),
                       medium |-> f.medium, io |-> io2]

\* StorageReader::open
open(block_size, storage_location, m) ==
    DiskStorage_new(block_size, storage_location, 0, "READ", m)

\* new_writer with its length check made after DiskStorage::new
new_writer_late_check(block_size, storage_location, expected_size, m) ==
    LET d == DiskStorage_new(block_size, storage_location, expected_size, "WRITE", m)
    IN  IF d.result # Ok THEN d
        ELSE IF expected_size < block_size.byte_len
        THEN [result |-> Err("OutputLengthTooShort",
                             [out_len |-> expected_size, min_len |-> block_size.byte_len]),
              store |-> Dead, medium |-> d.medium, io |-> d.io]
        ELSE d

\* new_writer with the divisibility check made before DiskStorage::new
new_writer_check_first(block_size, storage_location, expected_size, m) ==
    IF expected_size < block_size.byte_len
    THEN [result |-> Err("OutputLengthTooShort",
                         [out_len |-> expected_size, min_len |-> block_size.byte_len]),
          store |-> Dead, medium |-> m, io |-> <<>>]
    ELSE LET chk == check_key_evenly_divisible(block_size, expected_size)
         IN  IF chk.result # Ok
             THEN [result |-> IoError(chk.result), store |-> Dead, medium |-> m,
                   io |-> <<>>]
             ELSE DiskStorage_new(block_size, storage_location, expected_size, "WRITE", m)

\* StorageWriter::new_writer
new_writer(block_size, storage_location, expected_size, m) ==
    IF expected_size < block_size.byte_len
    THEN [result |-> Err("OutputLengthTooShort",
                         [out_len |-> expected_size, min_len |-> block_size.byte_len]),
          store |-> Dead, medium |-> m, io |-> <<>>]
    ELSE DiskStorage_new(block_size, storage_location, expected_size, "WRITE", m)

\* probe_read without its seek: the read is made at the cursor
probe_read_no_seek(self, offset, output, m) ==
    LET rd == ReadExact(self.big_key_file, m, output)
    IN  [result |-> IF rd.result = Ok THEN Ok ELSE IoError(rd.result),
         store |-> [self EXCEPT !.big_key_file = rd.file],
         out |-> rd.out, io |-> <<"seek", "read">>]

\* StorageReader::big_key_length
DiskStorage_big_key_length(self) == self.big_key_length

\* StorageReader::block_size
DiskStorage_block_size(self) == self.block_size

\* the seek and read_exact of probe, once both checks have passed
probe_read(self, offset, output, m) ==
    LET sk == FileSeek(self.big_key_file, offset)
    IN  IF sk.result # Ok
        THEN [result |-> IoError(sk.result), store |-> self, out |-> output,
              io |-> <<"seek">>]
        ELSE LET rd == ReadExact(sk.file, m, output)
             IN  [result |-> IF rd.result = Ok THEN Ok ELSE IoError(rd.result),
                  store |-> [self EXCEPT !.big_key_file = rd.file],
                  out |-> rd.out, io |-> <<"seek", "read">>]

\* the bounds check of probe made after the seek
probe_bounds_seek_first(self, offset, output, m, checks) ==
    LET end == U64AddSmall(offset, self.block_size.byte_len)
        moved == [self EXCEPT !.big_key_file = FileSeek(self.big_key_file, offset).file]
    IN  IF end.overflow /\ checks
        THEN [result |-> Panic("attempt to add with overflow"), store |-> moved,
              out |-> output, io |-> <<>>]
        ELSE IF U64Gt(end.val, U64(self.big_key_length))
        THEN [result |-> Err("ProbeOffsetOutOfBounds",
                             [end_of_key |-> self.big_key_length, offset |-> offset,
                              probe_len |-> self.block_size.byte_len]),
              store |-> moved, out |-> output, io |-> <<>>]
        ELSE probe_read(self, offset, output, m)

\* the bounds check of probe: offset + byte_len > big_key_length, in u64
probe_bounds(self, offset, output, m, checks) ==
    LET end == U64AddSmall(offset, self.block_size.byte_len)
    IN  IF end.overflow /\ checks
        THEN [result |-> Panic("attempt to add with overflow"), store |-> self,
              out |-> output, io |-> <<>>]
        ELSE IF U64Gt(end.val, U64(self.big_key_length))
        THEN [result |-> Err("ProbeOffsetOutOfBounds",
                             [end_of_key |-> self.big_key_length, offset |-> offset,
                              probe_len |-> self.block_size.byte_len]),
              store |-> self, out |-> output, io |-> <<>>]
        ELSE probe_read(self, offset, output, m)

\* probe with its two checks swapped: the bounds check comes first
probe_bounds_first(self, index, output, m, checks) ==
    LET offset == U64MulSmall(index, self.block_size.byte_len)
        end == U64AddSmall(offset.val, self.block_size.byte_len)
    IN  IF (offset.overflow \/ end.overflow) /\ checks
        THEN [result |-> Panic("attempt to multiply with overflow"),
              store |-> self, out |-> output, io |-> <<>>]
        ELSE IF U64Gt(end.val, U64(self.big_key_length))
        THEN [result |-> Err("ProbeOffsetOutOfBounds",
                             [end_of_key |-> self.big_key_length, offset |-> offset.val,
                              probe_len |-> self.block_size.byte_len]),
              store |-> self, out |-> output, io |-> <<>>]
        ELSE IF BLen(output) # self.block_size.byte_len
        THEN [result |-> Err("ProbeBufferNotEqBlockSize",
                             [out_buf_len |-> BLen(output),
                              block_len |-> self.block_size.byte_len]),
              store |-> self, out |-> output, io |-> <<>>]
        ELSE probe_read(self, offset.val, output, m)

\* StorageReader::probe.  index is a u64; checks is the build's overflow checking.
probe(self, index, output, m, checks) ==
    IF BLen(output) # self.block_size.byte_len
    THEN [result |-> Err("ProbeBufferNotEqBlockSize",
                         [out_buf_len |-> BLen(output),
                          block_len |-> self.block_size.byte_len]),
          store |-> self, out |-> output, io |-> <<>>]
    ELSE LET offset == U64MulSmall(index, self.block_size.byte_len)
         IN  IF offset.overflow /\ checks
             THEN [result |-> Panic("attempt to multiply with overflow"),
                   store |-> self, out |-> output, io |-> <<>>]
             ELSE probe_bounds(self, offset.val, output, m, checks)

\* Write for DiskStorage, used through write_all
write_all(self, data, m) ==
    LET w == FileWriteAll(self.big_key_file, m, data)
    IN  [result |-> IF w.result = Ok THEN Ok ELSE IoError(w.result),
         store |-> [self EXCEPT !.big_key_file = w.file],
         medium |-> w.medium, io |-> <<"write">>]

\* finalize that objects to a short medium only
finalize_short_only(self, m) ==
    LET len == BLen(Bytes(m))
    IN  IF len < self.big_key_length
        THEN [result |-> Err("FailedToWriteBigKey",
                             [expected_len |-> self.big_key_length, wrote_len |-> len]),
              io |-> <<"flush", "metadata">>]
        ELSE [result |-> Ok, io |-> <<"flush", "metadata">>]

\* StorageWriter::finalize: flush (nothing is buffered), then compare lengths
finalize(self, m) ==
    LET len == BLen(Bytes(m))
    IN  IF len # self.big_key_length
        THEN [result |-> Err("FailedToWriteBigKey",
                             [expected_len |-> self.big_key_length, wrote_len |-> len]),
              io |-> <<"flush", "metadata">>]
        ELSE [result |-> Ok, io |-> <<"flush", "metadata">>]

----------------------------------------------------------------------------
(* generation/shake256.rs: Shake256Generator *)

MIN_SEED_LENGTH == 32

\* MAX_OUTPUT_LENGTH = u64::max_value() as usize
MAX_OUTPUT_LENGTH == U64Max

None == [some |-> FALSE]

Some(v) == [some |-> TRUE, val |-> v]

\* SHAKE256 is a black box of the program.  Absorb stands in for the sponge's
\* absorption of the whole seed (Shake256::default, update, finalize_xof): the
\* sponge state is determined by the seed, so the seed itself keys the stream.
Absorb(seed) == seed

\* from_seed that also turns down a seed of exactly MIN_SEED_LENGTH bytes
from_seed_off_by_one(seed) ==
    IF Len(seed) <= MIN_SEED_LENGTH
    THEN [result |-> Err("SeedTooShort",
                         [seed_len |-> Len(seed), req_len |-> MIN_SEED_LENGTH])]
    ELSE [result |-> Ok, generator |-> [xof |-> [absorbed |-> Absorb(seed), pos |-> 0]]]

\* Shake256Generator::from_seed: the reader starts at position 0 of the stream
from_seed(seed) ==
    IF Len(seed) < MIN_SEED_LENGTH
    THEN [result |-> Err("SeedTooShort",
                         [seed_len |-> Len(seed), req_len |-> MIN_SEED_LENGTH])]
    ELSE [result |-> Ok, generator |-> [xof |-> [absorbed |-> Absorb(seed), pos |-> 0]]]

\* Shake256Generator::fill_bytes: the next Len(dest) bytes of the stream
fill_bytes(generator, dest) ==
    [result |-> Ok,
     dest |-> Run("xof", generator.xof.absorbed, generator.xof.pos, BLen(dest)),
     generator |-> [generator EXCEPT !.xof.pos = generator.xof.pos + BLen(dest)]]

\* the while loop of generate and the finalize after it; total_written stays
\* far below usize::MAX for the lengths of the model
\* the loop of generate without the ? on write_all: a failed append is
\* passed over and the loop goes on
RECURSIVE generate_loop_keep_going(_, _, _, _, _, _)
generate_loop_keep_going(self, generator, total_written, length_bytes, m, io) ==
    IF total_written < length_bytes
    THEN LET f == fill_bytes(generator, Zeros(self.block_size.byte_len))
             w == write_all(self, f.dest, m)
         IN  generate_loop_keep_going(w.store, f.generator,
                                      total_written + self.block_size.byte_len,
                                      length_bytes, w.medium, io \o w.io)
    ELSE LET fin == finalize(self, m)
         IN  [result |-> fin.result, store |-> self, medium |-> m, io |-> io \o fin.io]

RECURSIVE generate_loop(_, _, _, _, _, _)
generate_loop(self, generator, total_written, length_bytes, m, io) ==
    IF total_written < length_bytes
    THEN LET f == fill_bytes(generator, Zeros(self.block_size.byte_len))
             w == write_all(self, f.dest, m)
         IN  IF w.result # Ok
             THEN [result |-> w.result, store |-> w.store, medium |-> w.medium,
                   io |-> io \o w.io]
             ELSE generate_loop(w.store, f.generator,
                                total_written + self.block_size.byte_len,
                                length_bytes, w.medium, io \o w.io)
    ELSE LET fin == finalize(self, m)
         IN  [result |-> fin.result, store |-> self, medium |-> m, io |-> io \o fin.io]

\* BigKeyGenerator::generate for Shake256Generator
generate(self, optional_seed, length_bytes, m) ==
    IF U64Gt(U64(length_bytes), MAX_OUTPUT_LENGTH)
    THEN [result |-> Err("OutputLengthTooLong", [out_len |-> length_bytes]),
          store |-> self, medium |-> m, io |-> <<>>]
    ELSE IF ~optional_seed.some
    THEN [result |-> Panic("called Option::unwrap on a None value"),
          store |-> self, medium |-> m, io |-> <<>>]
    ELSE LET g == from_seed(optional_seed.val)
         IN  IF g.result # Ok
             THEN [result |-> g.result, store |-> self, medium |-> m, io |-> <<>>]
             ELSE generate_loop(self, g.generator, 0, length_bytes, m, <<>>)

----------------------------------------------------------------------------
(* traits/types.rs: SecurityLevel; kem/bigkey.rs: BigKey *)

Bits128 == 128

Bits256 == 256

SecurityLevels == {Bits128, Bits256}

\* struct BigKey.  leakage_tolerance is an f32, kept in thousandths;
\* storage_scheme is a shared reference to the store, kept as its id
BigKey(security_level, leakage_tolerance, storage_scheme, xof) ==
    [security_level |-> security_level, leakage_tolerance |-> leakage_tolerance,
     storage_scheme |-> storage_scheme, xof |-> xof]

\* BigKeyKem::new_big_key: returns Self, not a Result; it stores its arguments
new_big_key(security_level, leakage_tolerance, storage_scheme, xof) ==
    [result |-> Ok,
     kem |-> BigKey(security_level, leakage_tolerance, storage_scheme, xof),
     io |-> <<>>]

\* BigKeyKem::get_key: unimplemented!()
get_key(self, locator) == [result |-> Panic("not implemented"), io |-> <<>>]

\* BigKeyKem::new_key: unimplemented!()
new_key(self, security_level) == [result |-> Panic("not implemented"), io |-> <<>>]

----------------------------------------------------------------------------
(* Inputs of the model *)

\* leakage tolerances, in thousandths: 0, 0.25, 0.5, 1
Tolerances == {0, 250, 500, 1000}

\* the digest main.rs hands to new_big_key
Sha3_256 == "Sha3_256"

\* locators a caller may hold: an empty one and one of 32 bytes
Locators == {<<>>, [i \in 1..32 |-> i]}

StoreIds == {"s1"}

\* the first n bytes of the content a test put on the medium beforehand
PatternBytes(n) == Run("pat", 0, 0, n)

MediumLens ==
    UNION {{0, b.byte_len, MaxBlocks * b.byte_len, b.byte_len + 1} : b \in Catalog}

InitialMedia == {NoFile} \cup {FileOf(PatternBytes(n)) : n \in MediumLens}

ExpectedSizes(b) ==
    {0, b.byte_len - 1, b.byte_len + 1} \cup {k * b.byte_len : k \in 1..MaxWriteBlocks}

\* log2 of the catalog's byte lengths
Log2(n) == CHOOSE e \in 0..12 : 2 ^ e = n

\* the first index whose offset wraps around 2^64 (byte_len > 1)
WrapIndex(b) == U64Pow2(64 - Log2(b.byte_len))

ProbeIndexes(b) ==
    {U64(i) : i \in 0..MaxBlocks} \cup {U64Max}
    \cup (IF b.byte_len = 1 THEN {}
          ELSE {U64Pred(WrapIndex(b)), WrapIndex(b), U64AddSmall(WrapIndex(b), 1).val})

\* a right-sized buffer with every index, a wrong-sized one with the first
\* index and the largest one
ProbeInputs(b) ==
    {<<i, b.byte_len>> : i \in ProbeIndexes(b)}
    \cup {<<i, n>> : i \in {U64(0), U64Max}, n \in {b.byte_len - 1, b.byte_len + 1}}

\* what a caller appends: the first n bytes of its data
Data(n) == Run("data", 0, 0, n)

DataLens(b) == {b.byte_len}

\* "0123456789abcdef" repeated: the seed of the known-answer tests
HexDigit(i) == IF i < 10 THEN 48 + i ELSE 87 + i

Seed64 == [i \in 1..64 |-> HexDigit((i - 1) % 16)]

Seed32 == [i \in 1..32 |-> 2 * i]

Seed31 == [i \in 1..31 |-> 2 * i]

Seeds == {None, Some(Seed31), Some(Seed32), Some(Seed64)}

GenLengths(self) ==
    {1, 2 * self.block_size.byte_len - 1, self.big_key_length} \ {0}

\* the model stops a writer one block past its expected length
CanGrow(self, h, n) ==
    self.big_key_file.access = "w" =>
        /\ self.big_key_file.pos + n <= self.big_key_length + self.block_size.byte_len
        /\ h.appended + n <= self.big_key_length + self.block_size.byte_len

----------------------------------------------------------------------------
(* The state machine.  One DiskStorage is live at a time, as in main.rs,   *)
(* which never uses its writer again once the reader is opened.  A call is *)
(* atomic; its record stays in last until the caller takes the result.     *)

Idle == [op |-> "none"]

Call(op, s, args, r, out, m) ==
    [op |-> op, s |-> s, args |-> args, result |-> r.result, io |-> r.io,
     out |-> out, medium_changed |-> (m # medium)]

NoHist == [appended |-> 0, seeked |-> FALSE, finalized |-> FALSE]

Init ==
    /\ medium \in InitialMedia
    /\ stores = [s \in StoreIds |-> Dead]
    /\ last = Idle
    /\ hist = [s \in StoreIds |-> NoHist]
    /\ runs = <<>>

Open(s, block_size) ==
    /\ last = Idle
    /\ ~stores[s].live
    /\ LET r == open(block_size, KeyPath, medium)
       IN  /\ stores' = [stores EXCEPT ![s] = r.store]
           /\ medium' = r.medium
           /\ last' = Call("open", s,
                           [block_size |-> block_size, storage_location |-> KeyPath,
                            existed |-> medium.exists],
                           r, <<>>, r.medium)
    /\ UNCHANGED <<hist, runs>>

NewWriter(s, block_size, storage_location, expected_size) ==
    /\ last = Idle
    /\ ~stores[s].live
    /\ LET r == new_writer(block_size, storage_location, expected_size, medium)
       IN  /\ stores' = [stores EXCEPT ![s] = r.store]
           /\ medium' = r.medium
           /\ last' = Call("new_writer", s,
                           [block_size |-> block_size,
                            storage_location |-> storage_location,
                            expected_size |-> expected_size,
                            existed |-> medium.exists],
                           r, <<>>, r.medium)
    /\ UNCHANGED <<hist, runs>>

\* overflow_checks is the build's arithmetic: TRUE as in the debug profile (an
\* overflow panics), FALSE as in the release profile (it wraps)
Probe(s, index, buf_len, overflow_checks) ==
    /\ last = Idle
    /\ stores[s].live
    /\ LET r == probe(stores[s], index, Zeros(buf_len), medium, overflow_checks)
       IN  /\ stores' = [stores EXCEPT ![s] = r.store]
           /\ last' = Call("probe", s,
                           [index |-> index, buf_len |-> buf_len,
                            rewind |->
                                /\ r.io = <<"seek", "read">>
                                /\ r.store.big_key_file.pos
                                       <= stores[s].big_key_file.pos],
                           r, r.out, medium)
           /\ hist' = [hist EXCEPT ![s].seeked = @ \/ r.io # <<>>]
    /\ UNCHANGED <<medium, runs>>

Write(s, data) ==
    /\ last = Idle
    /\ stores[s].live
    /\ CanGrow(stores[s], hist[s], BLen(data))
    /\ LET r == write_all(stores[s], data, medium)
       IN  /\ stores' = [stores EXCEPT ![s] = r.store]
           /\ medium' = r.medium
           /\ last' = Call("write_all", s, [len |-> BLen(data)], r, <<>>, r.medium)
           /\ hist' = [hist EXCEPT ![s].appended =
                          @ + r.store.big_key_file.pos - stores[s].big_key_file.pos]
    /\ UNCHANGED runs

Finalize(s) ==
    /\ last = Idle
    /\ stores[s].live
    /\ LET r == finalize(stores[s], medium)
       IN  /\ last' = Call("finalize", s, [len |-> BLen(Bytes(medium))], r, <<>>, medium)
           /\ hist' = [hist EXCEPT ![s].finalized = @ \/ IsOk(r.result)]
    /\ UNCHANGED <<medium, stores, runs>>

GenerateCall(s, optional_seed, length_bytes) ==
    /\ last = Idle
    /\ stores[s].live
    /\ CanGrow(stores[s], hist[s], length_bytes)
    /\ LET r == generate(stores[s], optional_seed, length_bytes, medium)
       IN  /\ stores' = [stores EXCEPT ![s] = r.store]
           /\ medium' = r.medium
           /\ last' = Call("generate", s,
                           [seed |-> optional_seed, length_bytes |-> length_bytes],
                           r, <<>>, r.medium)
           /\ hist' = [hist EXCEPT
                          ![s].appended =
                              @ + r.store.big_key_file.pos - stores[s].big_key_file.pos,
                          ![s].finalized = @ \/ IsOk(r.result)]

Generate(s, optional_seed, length_bytes) ==
    /\ GenerateCall(s, optional_seed, length_bytes)
    /\ UNCHANGED runs

\* generate, with the first successful call and the medium it left remembered
GenerateLogged(s, optional_seed, length_bytes) ==
    /\ GenerateCall(s, optional_seed, length_bytes)
    /\ runs' = IF runs = <<>> /\ IsOk(last'.result)
               THEN <<[seed |-> optional_seed, length_bytes |-> length_bytes,
                       block_size |-> stores[s].block_size, bytes |-> Bytes(medium')]>>
               ELSE runs

\* BigKey::new_big_key over the store; the BigKey it returns is the out of the
\* call
NewBigKey(s, security_level, leakage_tolerance) ==
    /\ last = Idle
    /\ stores[s].live
    /\ LET r == new_big_key(security_level, leakage_tolerance, s, Sha3_256)
       IN  last' = Call("new_big_key", s,
                        [security_level |-> security_level,
                         leakage_tolerance |-> leakage_tolerance],
                        r, r.kem, medium)
    /\ UNCHANGED <<medium, stores, hist, runs>>

\* new_key(self, ..) consumes the BigKey that new_big_key has just returned
NewKey(security_level) ==
    /\ last.op = "new_big_key"
    /\ IsOk(last.result)
    /\ LET r == new_key(last.out, security_level)
       IN  last' = Call("new_key", last.s,
                        [security_level |-> security_level, kem |-> last.out],
                        r, <<>>, medium)
    /\ UNCHANGED <<medium, stores, hist, runs>>

\* get_key(self, ..) consumes the BigKey that new_big_key has just returned
GetKey(locator) ==
    /\ last.op = "new_big_key"
    /\ IsOk(last.result)
    /\ LET r == get_key(last.out, locator)
       IN  last' = Call("get_key", last.s,
                        [locator |-> locator, kem |-> last.out],
                        r, <<>>, medium)
    /\ UNCHANGED <<medium, stores, hist, runs>>

\* the owning scope ends: the handle is closed, the medium stays
Drop(s) ==
    /\ last = Idle
    /\ stores[s].live
    /\ stores' = [stores EXCEPT ![s] = Dead]
    /\ hist' = [hist EXCEPT ![s] = NoHist]
    /\ UNCHANGED <<medium, last, runs>>

\* the caller has taken the result of the call; the next call starts from here
Return ==
    /\ last # Idle
    /\ last' = Idle
    /\ UNCHANGED <<medium, stores, hist, runs>>

Calls ==
    \E s \in StoreIds :
        \/ \E b \in Catalog : Open(s, b)
        \/ \E b \in Catalog, p \in Paths :
                \E e \in ExpectedSizes(b) : NewWriter(s, b, p, e)
        \/ /\ stores[s].live
           /\ \E in \in ProbeInputs(stores[s].block_size), c \in BOOLEAN :
                    Probe(s, in[1], in[2], c)
        \/ /\ stores[s].live
           /\ \E n \in DataLens(stores[s].block_size) : Write(s, Data(n))
        \/ Finalize(s)
        \/ /\ stores[s].live
           /\ \E seed \in Seeds, n \in GenLengths(stores[s]) : Generate(s, seed, n)
        \/ Drop(s)

Next == Calls \/ Return

Spec == Init /\ [][Next]_vars

\* the generator alone: writers are created, filled by generate and dropped
GenCalls ==
    \E s \in StoreIds :
        \/ \E b \in Catalog, p \in Paths :
                \E e \in ExpectedSizes(b) : NewWriter(s, b, p, e)
        \/ /\ stores[s].live
           /\ \E seed \in Seeds, n \in GenLengths(stores[s]) :
                    GenerateLogged(s, seed, n)
        \/ Drop(s)

NextGen == GenCalls \/ Return

SpecGen == Init /\ [][NextGen]_vars

\* the key encapsulation over a store, as main.rs drives it: the store is
\* written by generate or opened, then a BigKey is made over it and used
KemCalls ==
    \E s \in StoreIds :
        \/ \E b \in Catalog : Open(s, b)
        \/ \E b \in Catalog : NewWriter(s, b, KeyPath, b.byte_len)
        \/ /\ stores[s].live
           /\ \E seed \in Seeds : Generate(s, seed, stores[s].big_key_length)
        \/ \E l \in SecurityLevels, t \in Tolerances : NewBigKey(s, l, t)
        \/ \E l \in SecurityLevels : NewKey(l)
        \/ \E loc \in Locators : GetKey(loc)
        \/ Drop(s)

NextKem == KemCalls \/ Return

SpecKem == Init /\ [][NextKem]_vars

----------------------------------------------------------------------------
(* Concurrent probes.  probe takes &mut self, so two callers cannot be     *)
(* inside probe on the same DiskStorage; callers that probe the same       *)
(* medium at the same time each hold a DiskStorage of their own, made by   *)
(* their own call of open.  Here stores, last and hist are per caller, a   *)
(* probe is two steps (checks and seek, then read_exact), and the steps of *)
(* the callers interleave freely.                                          *)

Callers == {"c1", "c2"}

\* every caller on one file description: one cursor for all
SharedCursor(c) == "c1"

\* the DiskStorage whose file cursor the caller's probe moves and reads at:
\* its own (File::open gives every store a file description of its own)
CursorOf(c) == c

InitConc ==
    /\ medium \in {m \in InitialMedia : m.exists}
    /\ stores \in {[c \in Callers |-> open(b, KeyPath, medium).store] :
                      b \in {d \in Catalog : IsOk(open(d, KeyPath, medium).result)}}
    /\ last = [c \in Callers |-> Idle]
    /\ hist = [c \in Callers |-> NoHist]
    /\ runs = <<>>

\* where a caller is inside or after its probe
Probing(index, buf_len, pc, result, out) ==
    [op |-> "probe", index |-> index, buf_len |-> buf_len, pc |-> pc,
     result |-> result, out |-> out]

\* the first step of probe: both checks, the offset and the seek (up to
\* disk.rs:85); a probe that a check stops, or whose seek fails, is done
ProbeSeek(c, index, buf_len, overflow_checks) ==
    /\ last[c] = Idle
    /\ LET self == stores[c]
           whole == probe(self, index, Zeros(buf_len), medium, overflow_checks)
           offset == U64MulSmall(index, self.block_size.byte_len).val
           sk == FileSeek(stores[CursorOf(c)].big_key_file, offset)
       IN  IF whole.io = <<>>
           THEN /\ last' = [last EXCEPT ![c] =
                               Probing(index, buf_len, "done", whole.result, whole.out)]
                /\ UNCHANGED stores
           ELSE IF sk.result # Ok
           THEN /\ last' = [last EXCEPT ![c] =
                               Probing(index, buf_len, "done", IoError(sk.result),
                                       Zeros(buf_len))]
                /\ UNCHANGED stores
           ELSE /\ last' = [last EXCEPT ![c] =
                               Probing(index, buf_len, "read", Ok, Zeros(buf_len))]
                /\ stores' = [stores EXCEPT ![CursorOf(c)].big_key_file = sk.file]
    /\ UNCHANGED <<medium, hist, runs>>

\* the second step of probe: read_exact at the cursor (disk.rs:86-88)
ProbeRead(c) ==
    /\ last[c].op = "probe"
    /\ last[c].pc = "read"
    /\ LET rd == ReadExact(stores[CursorOf(c)].big_key_file, medium, last[c].out)
       IN  /\ last' = [last EXCEPT ![c] =
                          Probing(last[c].index, last[c].buf_len, "done",
                                  IF rd.result = Ok THEN Ok ELSE IoError(rd.result),
                                  rd.out)]
           /\ stores' = [stores EXCEPT ![CursorOf(c)].big_key_file = rd.file]
    /\ UNCHANGED <<medium, hist, runs>>

\* the caller has taken the result of its probe
ProbeReturn(c) ==
    /\ last[c].op = "probe"
    /\ last[c].pc = "done"
    /\ last' = [last EXCEPT ![c] = Idle]
    /\ UNCHANGED <<medium, stores, hist, runs>>

NextConc ==
    \E c \in Callers :
        \/ \E in \in ProbeInputs(stores[c].block_size), k \in BOOLEAN :
                ProbeSeek(c, in[1], in[2], k)
        \/ ProbeRead(c)
        \/ ProbeReturn(c)

SpecConc == InitConc /\ [][NextConc]_vars

----------------------------------------------------------------------------
(* The loop of generate, iteration by iteration, with its usize counter at *)
(* its 64-bit width.  The store was created on a location that takes every *)
(* write and keeps nothing (a device such as /dev/null), so that no append *)
(* fails and the loop runs as far as its counter lets it; last is the      *)
(* position inside generate.                                               *)

SinkPath == "/dev/null"

\* a DiskStorage from new_writer(b, SinkPath, b.byte_len)
SinkStore(b) ==
    DiskStorage(b, b.byte_len, [path |-> SinkPath, pos |-> 0, access |-> "w"])

\* length_bytes of the loop: small ones, and the largest ones of usize
LoopLengths(b) ==
    {U64(1), U64(b.byte_len), U64(2 * b.byte_len + 1),
     U64SubSmall(U64Max, b.byte_len), U64SubSmall(U64Max, b.byte_len - 1),
     U64Pred(U64Max), U64Max}

\* inside generate: the counter, the counter before the last iteration, the
\* build's overflow checking
InLoop(length_bytes, total_written, before, iterated, checks, pc, result) ==
    [op |-> "generate_loop", length_bytes |-> length_bytes,
     total_written |-> total_written, before |-> before, iterated |-> iterated,
     overflow_checks |-> checks, pc |-> pc, result |-> result]

\* generate has passed its checks and from_seed, and stands before the loop
InitLoop ==
    /\ medium = FileOf(<<>>)
    /\ stores \in {[s \in StoreIds |-> SinkStore(b)] : b \in Catalog}
    /\ last \in {InLoop(n, U64(0), U64(0), FALSE, c, "loop", Ok) :
                    n \in UNION {LoopLengths(b) : b \in Catalog}, c \in BOOLEAN}
    /\ hist = [s \in StoreIds |-> NoHist]
    /\ runs = <<>>

\* the counter is within a few iterations of the start of the loop or of its
\* end; the iterations in between are taken at once by GenLoopIterateMany
NearLoopEnds(length_bytes, total_written, byte_len) ==
    \/ ~U64Gt(total_written, U64(MaxLoopBlocks * byte_len))
    \/ LET aligned == U64AlignDown(length_bytes, byte_len)
       IN  /\ U64Gt(aligned, U64(3 * byte_len))
           /\ ~U64Gt(U64SubSmall(aligned, 2 * byte_len), total_written)

\* one iteration (shake256.rs:41-45): fill_bytes, a write_all that the sink
\* takes, total_written += buf.capacity()
GenLoopIterate(s) ==
    /\ last.op = "generate_loop"
    /\ last.pc = "loop"
    /\ U64Gt(last.length_bytes, last.total_written)
    /\ NearLoopEnds(last.length_bytes, last.total_written, stores[s].block_size.byte_len)
    /\ LET add == U64AddSmall(last.total_written, stores[s].block_size.byte_len)
       IN  last' = IF add.overflow /\ last.overflow_checks
                   THEN [last EXCEPT !.pc = "done",
                                     !.result = Panic("attempt to add with overflow")]
                   ELSE [last EXCEPT !.total_written = add.val,
                                     !.before = last.total_written,
                                     !.iterated = TRUE]
    /\ UNCHANGED <<medium, stores, hist, runs>>

\* the iterations up to two blocks before length_bytes, taken at once: each of
\* them adds byte_len to the counter, and none overflows it
GenLoopIterateMany(s) ==
    /\ last.op = "generate_loop"
    /\ last.pc = "loop"
    /\ LET byte_len == stores[s].block_size.byte_len
           aligned == U64AlignDown(last.length_bytes, byte_len)
       IN  /\ U64Gt(aligned, U64(3 * byte_len))
           /\ LET target == U64SubSmall(aligned, 2 * byte_len)
              IN  /\ U64Gt(target, last.total_written)
                  /\ last' = [last EXCEPT !.total_written = target,
                                          !.before = U64SubSmall(target, byte_len),
                                          !.iterated = TRUE]
    /\ UNCHANGED <<medium, stores, hist, runs>>

\* the loop is left and finalize is called (shake256.rs:47)
GenLoopExit(s) ==
    /\ last.op = "generate_loop"
    /\ last.pc = "loop"
    /\ ~U64Gt(last.length_bytes, last.total_written)
    /\ last' = [last EXCEPT !.pc = "done", !.result = finalize(stores[s], medium).result]
    /\ UNCHANGED <<medium, stores, hist, runs>>

NextLoop ==
    \E s \in StoreIds : GenLoopIterate(s) \/ GenLoopIterateMany(s) \/ GenLoopExit(s)

SpecLoop == InitLoop /\ [][NextLoop]_vars

----------------------------------------------------------------------------
(* Properties.  They read the record of the call that has just returned;   *)
(* the store of the call is still live then, and the medium is as the call *)
(* left it.                                                                *)

\* the store of the last call
LastStore == stores[last.s]

\* the last call was op, made on a store opened for read
ReaderCall(op) ==
    /\ last.op = op
    /\ LastStore.live
    /\ LastStore.big_key_file.access = "r"

\* the last call was op, made on a store created for write
WriterCall(op) ==
    /\ last.op = op
    /\ LastStore.live
    /\ LastStore.big_key_file.access = "w"

\* (index + 1) * byte_len > total_length, without wrap-around: index is at
\* least the number of blocks of the store
IndexOutOfBounds(self, index) ==
    ~U64Gt(U64(self.big_key_length \div self.block_size.byte_len), index)

\* C1: on a store opened for read, a probe with a buffer of the block's length
\* and an index with (index + 1) * byte_len > total_length (in exact
\* arithmetic) fails with ProbeOffsetOutOfBounds and makes no call on the
\* medium, for every index of the u64 range.
C1_ProbeOutOfBounds ==
    ( /\ ReaderCall("probe")
      /\ last.args.buf_len = LastStore.block_size.byte_len
      /\ IndexOutOfBounds(LastStore, last.args.index) )
    => /\ IsErr(last.result, "ProbeOffsetOutOfBounds")
       /\ last.io = <<>>

\* C2: a probe with a buffer whose length is not the block's length fails with
\* ProbeBufferNotEqBlockSize, whatever the index, also when the index is out of
\* bounds, and makes no call on the medium.
C2_BufferSizeMismatch ==
    ( /\ ReaderCall("probe")
      /\ last.args.buf_len # LastStore.block_size.byte_len )
    => /\ last.result = Err("ProbeBufferNotEqBlockSize",
                            [out_buf_len |-> last.args.buf_len,
                             block_len |-> LastStore.block_size.byte_len])
       /\ last.io = <<>>
       /\ last.out = Zeros(last.args.buf_len)

\* a probe with a wrong-sized buffer and an index that is out of bounds
C2_Witness ==
    /\ ReaderCall("probe")
    /\ last.args.buf_len # LastStore.block_size.byte_len
    /\ IndexOutOfBounds(LastStore, last.args.index)
    /\ IsErr(last.result, "ProbeBufferNotEqBlockSize")

\* the medium's bytes [index * byte_len, (index + 1) * byte_len): none when the
\* index is out of bounds
ExactBlock(self, index, m) ==
    IF IndexOutOfBounds(self, index) THEN <<>>
    ELSE BSlice(Bytes(m), U64ToNat(index) * self.block_size.byte_len,
                self.block_size.byte_len)

\* C3: on a store opened for read, a probe that passes the buffer check and
\* the bounds check (the buffer has the block's length and (index + 1) *
\* byte_len <= total_length) succeeds and leaves in the buffer exactly the
\* medium's bytes [index * byte_len, (index + 1) * byte_len), wherever the
\* earlier probes, successful or failed, left the cursor.
C3_ProbeReadsBlock ==
    ( /\ ReaderCall("probe")
      /\ last.args.buf_len = LastStore.block_size.byte_len
      /\ ~IndexOutOfBounds(LastStore, last.args.index) )
    => /\ IsOk(last.result)
       /\ last.io = <<"seek", "read">>
       /\ last.out = ExactBlock(LastStore, last.args.index, medium)
       /\ BLen(last.out) = LastStore.block_size.byte_len

\* a successful probe of a block that lies before the cursor the earlier
\* probes left
C3_Witness ==
    /\ ReaderCall("probe")
    /\ IsOk(last.result)
    /\ last.args.rewind
    /\ last.args.index = U64(0)
    /\ LastStore.big_key_length > LastStore.block_size.byte_len

\* C4: on a store created for write, finalize succeeds exactly when the
\* medium's length equals the expected length; otherwise it fails with
\* FailedToWriteBigKey carrying the expected and the actual length, and while
\* the store has only been appended to, the actual length is the number of
\* bytes appended, fewer or more than expected.
C4_FinalizeIntegrity ==
    WriterCall("finalize") =>
        LET expected == LastStore.big_key_length
            actual == BLen(Bytes(medium))
        IN  /\ IsOk(last.result) <=> actual = expected
            /\ ~IsOk(last.result) =>
                   last.result = Err("FailedToWriteBigKey",
                                     [expected_len |-> expected, wrote_len |-> actual])
            /\ ~hist[last.s].seeked => actual = hist[last.s].appended

\* finalize after more bytes were appended than expected
C4_Witness ==
    /\ WriterCall("finalize")
    /\ ~hist[last.s].seeked
    /\ hist[last.s].appended > LastStore.big_key_length
    /\ IsErr(last.result, "FailedToWriteBigKey")

\* finalize after exactly the expected bytes were appended
C4_WitnessOk ==
    /\ WriterCall("finalize")
    /\ hist[last.s].appended = LastStore.big_key_length
    /\ IsOk(last.result)

\* C5: open on a medium whose length is not a multiple of byte_len, and
\* new_writer with an expected size of at least byte_len that is not a multiple
\* of byte_len, both fail with the KeyLengthIndivisible error, not with a
\* wrapped I/O error.
C5_IndivisibleLengthKind ==
    /\ ( /\ last.op = "open"
         /\ last.args.existed
         /\ BLen(Bytes(medium)) % last.args.block_size.byte_len # 0 )
       => IsErr(last.result, "KeyLengthIndivisible")
    /\ ( /\ last.op = "new_writer"
         /\ last.args.storage_location = KeyPath
         /\ last.args.expected_size >= last.args.block_size.byte_len
         /\ last.args.expected_size % last.args.block_size.byte_len # 0 )
       => IsErr(last.result, "KeyLengthIndivisible")

\* what the code keeps of C5: both calls fail, and no store comes of them
IndivisibleLengthRejected ==
    ( \/ /\ last.op = "open"
         /\ last.args.existed
         /\ BLen(Bytes(medium)) % last.args.block_size.byte_len # 0
      \/ /\ last.op = "new_writer"
         /\ last.args.expected_size >= last.args.block_size.byte_len
         /\ last.args.expected_size % last.args.block_size.byte_len # 0 )
    => /\ ~IsOk(last.result)
       /\ ~LastStore.live

\* C6: new_writer with an expected size below byte_len, 0 included, fails with
\* OutputLengthTooShort before any call is made on the medium: also for a
\* location that cannot be created, and the medium is neither created nor
\* truncated.
C6_OutputTooShortFirst ==
    ( /\ last.op = "new_writer"
      /\ last.args.expected_size < last.args.block_size.byte_len )
    => /\ last.result = Err("OutputLengthTooShort",
                            [out_len |-> last.args.expected_size,
                             min_len |-> last.args.block_size.byte_len])
       /\ last.io = <<>>
       /\ ~last.medium_changed
       /\ ~LastStore.live

\* new_writer with expected size 0 on a location that cannot be created
C6_Witness ==
    /\ last.op = "new_writer"
    /\ last.args.expected_size = 0
    /\ last.args.storage_location = DirPath
    /\ IsErr(last.result, "OutputLengthTooShort")

\* C7: open succeeds exactly when the medium exists and its length is a
\* multiple of byte_len; the store it returns reports the medium's length and
\* the block size passed in; every store opened for read has a length that is
\* a multiple of its byte_len.
C7_OpenAligned ==
    /\ last.op = "open" =>
           /\ IsOk(last.result) <=>
                  /\ last.args.existed
                  /\ BLen(Bytes(medium)) % last.args.block_size.byte_len = 0
           /\ IsOk(last.result) =>
                  /\ LastStore.live
                  /\ DiskStorage_big_key_length(LastStore) = BLen(Bytes(medium))
                  /\ DiskStorage_block_size(LastStore) = last.args.block_size
    /\ \A s \in StoreIds :
           (stores[s].live /\ stores[s].big_key_file.access = "r") =>
               DiskStorage_big_key_length(stores[s])
                   % DiskStorage_block_size(stores[s]).byte_len = 0

\* a successful open of a medium of several blocks
C7_Witness ==
    /\ last.op = "open"
    /\ IsOk(last.result)
    /\ DiskStorage_big_key_length(LastStore)
           = MaxBlocks * DiskStorage_block_size(LastStore).byte_len

\* C8: open where no medium exists fails with an I/O error of kind NotFound,
\* for every block size, and leaves the medium absent.
C8_OpenNotFound ==
    (last.op = "open" /\ ~last.args.existed)
    => /\ last.result = IoError(IoErr("NotFound"))
       /\ ~medium.exists
       /\ ~last.medium_changed
       /\ ~LastStore.live

\* an open that failed where no medium exists
C8_Witness ==
    /\ last.op = "open"
    /\ ~last.args.existed
    /\ IsIoError(last.result, "NotFound")

\* the first n bytes of the expansion of seed
Expansion(seed, n) == Run("xof", Absorb(seed), 0, n)

\* C9: whenever generate returns success, the medium holds exactly
\* length_bytes bytes, the first length_bytes bytes of the expansion of the
\* seed, also for a length_bytes that is not a multiple of the block size or
\* is not the store's expected size.
C9_GenerateExactLength ==
    (WriterCall("generate") /\ IsOk(last.result))
    => /\ BLen(Bytes(medium)) = last.args.length_bytes
       /\ Bytes(medium) = Expansion(last.args.seed.val, last.args.length_bytes)

\* the successful generate that has just returned took the seed and the
\* length of the successful run that runs remembers
SameRunAgain ==
    /\ WriterCall("generate")
    /\ IsOk(last.result)
    /\ runs # <<>>
    /\ last.args.seed = runs[1].seed
    /\ last.args.length_bytes = runs[1].length_bytes

\* C10: two successful runs of generate with the same seed and the same
\* length_bytes leave the same bytes on the medium, whatever the block sizes of
\* the two stores; the chunks of a run are consecutive stretches of one
\* expansion stream, from its start on.
C10_Deterministic ==
    /\ SameRunAgain => Bytes(medium) = runs[1].bytes
    /\ (WriterCall("generate") /\ IsOk(last.result))
       => Bytes(medium) = Expansion(last.args.seed.val, BLen(Bytes(medium)))

\* C11: generate with a seed of fewer than 32 bytes fails with SeedTooShort
\* before any byte is appended and without a call of finalize: it makes no call
\* on the medium; a seed of exactly 32 bytes is not turned down.
C11_SeedTooShort ==
    (last.op = "generate" /\ last.args.seed.some)
    => /\ Len(last.args.seed.val) < 32
          => /\ last.result = Err("SeedTooShort",
                                  [seed_len |-> Len(last.args.seed.val), req_len |-> 32])
             /\ last.io = <<>>
             /\ ~last.medium_changed
       /\ Len(last.args.seed.val) >= 32 => ~IsErr(last.result, "SeedTooShort")

\* generate turned down a seed of 31 bytes on a store created for write
C11_Witness ==
    /\ WriterCall("generate")
    /\ last.args.seed = Some(Seed31)
    /\ IsErr(last.result, "SeedTooShort")

\* generate went on to append with a seed of exactly 32 bytes
C11_WitnessAccepted ==
    /\ WriterCall("generate")
    /\ last.args.seed = Some(Seed32)
    /\ last.io # <<>>

\* C12: once finalize has succeeded on a store, an append to it is rejected
\* and writes nothing: the medium's bytes and length stay as they were.
C12_ImmutableAfterFinalize ==
    (last.op = "write_all" /\ hist[last.s].finalized)
    => /\ ~IsOk(last.result)
       /\ ~last.medium_changed

\* the tolerance (in thousandths) is strictly between 0 and 1
ValidTolerance(t) == 0 < t /\ t < 1000

\* the store the BigKey of the last call was made over holds a finalized key:
\* it was opened for read, or a finalize of it has succeeded
OverFinalizedStore ==
    /\ LastStore.live
    /\ LastStore.big_key_file.access = "r" \/ hist[last.s].finalized

\* C13: on a BigKey over a finalized store that does not change, new_key issues
\* a locator with its key material, and get_key of that locator returns
\* exactly that key material.
C13_KemRoundTrip ==
    ( /\ last.op = "new_key"
      /\ OverFinalizedStore
      /\ ValidTolerance(last.args.kem.leakage_tolerance) )
    => /\ IsOk(last.result)
       /\ LET again == get_key(last.args.kem, last.out.locator)
          IN  /\ IsOk(again.result)
              /\ again.key = last.out.key

\* C14: new_big_key with a leakage tolerance that is not strictly between 0
\* and 1, exactly 0 and exactly 1 included, fails with InvalidLeakageTolerance
\* without a call on the store, and no BigKey comes of it.
C14_InvalidLeakageTolerance ==
    (last.op = "new_big_key" /\ ~ValidTolerance(last.args.leakage_tolerance))
    => /\ IsErr(last.result, "InvalidLeakageTolerance")
       /\ last.io = <<>>
       /\ last.out = <<>>

\* the blocks of a store
BlockCount(self) == self.big_key_length \div self.block_size.byte_len

\* the least d with tolerance^d <= 2^-bits, for a tolerance of 1/2^k
RequiredProbes(t, bits) ==
    LET k == CHOOSE j \in 1..9 : t * (2 ^ j) = 1000
    IN  (bits + k - 1) \div k

\* C15: a BigKey that new_big_key returns carries a probe count d with
\* tolerance^d <= 2^-bits and 1 <= d <= the store's block count (d = 128 for
\* tolerance 0.5 at 128 bits); over a store with fewer blocks than that d,
\* new_big_key fails with InsufficientKeyMaterial.
C15_ProbeCount ==
    (last.op = "new_big_key" /\ ValidTolerance(last.args.leakage_tolerance))
    => LET required == RequiredProbes(last.args.leakage_tolerance,
                                      last.args.security_level)
       IN  /\ BlockCount(LastStore) < required
              => IsErr(last.result, "InsufficientKeyMaterial")
           /\ IsOk(last.result)
              => /\ "d" \in DOMAIN last.out
                 /\ last.out.d >= required
                 /\ last.out.d >= 1
                 /\ last.out.d <= BlockCount(LastStore)

\* C17: every call of generate (one given no seed included), new_key and
\* get_key returns success or a typed error; none aborts.
C17_NoAbort ==
    last.op \in {"generate", "new_key", "get_key"}
    => last.result.kind \in {"Ok", "Err"}

\* C16: when several callers probe the same medium with their seek and read
\* steps interleaved in any order, every probe with an index in bounds
\* succeeds and returns the block at its own index: no caller's seek moves the
\* position another caller's read uses.
C16_ConcurrentProbes ==
    \A c \in Callers :
        ( /\ last[c].op = "probe"
          /\ last[c].pc = "done"
          /\ last[c].buf_len = stores[c].block_size.byte_len
          /\ ~IndexOutOfBounds(stores[c], last[c].index) )
        => /\ IsOk(last[c].result)
           /\ last[c].out = ExactBlock(stores[c], last[c].index, medium)

\* one caller's probe is done with its block while the other caller has seeked
\* to another block in between and has not read yet
C16_Witness ==
    /\ last["c1"].op = "probe" /\ last["c1"].pc = "done" /\ IsOk(last["c1"].result)
    /\ last["c2"].op = "probe" /\ last["c2"].pc = "read"
    /\ last["c1"].index # last["c2"].index
    /\ stores["c2"].big_key_file.pos < stores["c1"].big_key_file.pos
           - stores["c1"].block_size.byte_len

\* the calls generate made on the store: appends, then at most one finalize
Appends(io) == Len(SelectSeq(io, LAMBDA x : x = "write"))

Finalizes(io) == Len(SelectSeq(io, LAMBDA x : x = "flush"))

\* the appends generate needs for length_bytes
AppendsNeeded(n, byte_len) == (n + byte_len - 1) \div byte_len

\* C18: when an append or the finalize inside generate fails, generate returns
\* that error at once: on a store whose appends fail (one opened for read)
\* it stops after the first append, without a finalize and with that I/O
\* error; it calls finalize at most once, after the last append; it reports
\* success only if every step succeeded, the finalize included.
C18_GeneratePropagates ==
    ( /\ last.op = "generate"
      /\ last.args.seed.some
      /\ Len(last.args.seed.val) >= 32 )
    => LET io == last.io
           byte_len == LastStore.block_size.byte_len
       IN  /\ LastStore.big_key_file.access = "r"
              => /\ last.result = IoError(IoErr("BadFileDescriptor"))
                 /\ io = <<"write">>
                 /\ ~last.medium_changed
           /\ Appends(io) <= AppendsNeeded(last.args.length_bytes, byte_len)
           /\ Finalizes(io) <= 1
           /\ Finalizes(io) = 1
              => /\ io[Len(io)] = "metadata"
                 /\ Appends(io) = AppendsNeeded(last.args.length_bytes, byte_len)
                 /\ IsOk(last.result) <=> BLen(Bytes(medium)) = LastStore.big_key_length
           /\ IsOk(last.result) => Finalizes(io) = 1
           /\ IsErr(last.result, "FailedToWriteBigKey") => Finalizes(io) = 1

\* generate on a store opened for read: its first append failed
C18_Witness ==
    /\ ReaderCall("generate")
    /\ last.args.length_bytes > LastStore.block_size.byte_len
    /\ IsIoError(last.result, "BadFileDescriptor")

\* generate whose finalize failed
C18_WitnessFinalize ==
    /\ WriterCall("generate")
    /\ IsErr(last.result, "FailedToWriteBigKey")

\* C19: the loop of generate makes strictly positive progress on each
\* iteration, for every length_bytes up to the largest usize: the counter of
\* bytes written is larger after an iteration than before it, so that the loop
\* ends after at most ceil(length_bytes / byte_len) appends.
C19_LoopProgress ==
    (last.op = "generate_loop" /\ last.iterated)
    => U64Gt(last.total_written, last.before)

\* C20: after new_writer(b, location, E) and a successful generate or finalize
\* on that store, open(b, location) succeeds and reports the length E, and on
\* the store it returns a probe of index i with a buffer of the block's length
\* succeeds for every i < E / byte_len and fails with ProbeOffsetOutOfBounds
\* for every i >= E / byte_len.
C20_WriteThenRead ==
    ( /\ WriterCall("finalize") \/ WriterCall("generate")
      /\ IsOk(last.result) )
    => LET b == LastStore.block_size
           r == open(b, LastStore.big_key_file.path, medium)
       IN  /\ IsOk(r.result)
           /\ r.store.big_key_length = LastStore.big_key_length
           /\ \A i \in ProbeIndexes(b), checks \in BOOLEAN :
                 LET p == probe(r.store, i, Zeros(b.byte_len), r.medium, checks)
                 IN  IF IndexOutOfBounds(r.store, i)
                     THEN IsErr(p.result, "ProbeOffsetOutOfBounds")
                     ELSE IsOk(p.result)

\* C21: open accepts an existing medium of length 0 for every block size; on
\* the store it returns big_key_length is 0 and every probe with a buffer of
\* the block's length fails with ProbeOffsetOutOfBounds.
C21_OpenEmpty ==
    /\ ( /\ last.op = "open"
         /\ last.args.existed
         /\ BLen(Bytes(medium)) = 0 )
       => /\ IsOk(last.result)
          /\ DiskStorage_big_key_length(LastStore) = 0
    /\ ( /\ ReaderCall("probe")
         /\ DiskStorage_big_key_length(LastStore) = 0
         /\ last.args.buf_len = LastStore.block_size.byte_len )
       => IsErr(last.result, "ProbeOffsetOutOfBounds")

\* C22: a new_writer with an expected size of at least byte_len that is
\* rejected because byte_len does not divide the expected size has made its
\* create call before the check: when the error is returned the medium exists
\* at the location and is empty, whether it was there before or not.
C22_CreatedBeforeCheck ==
    ( /\ last.op = "new_writer"
      /\ last.args.expected_size >= last.args.block_size.byte_len
      /\ last.args.expected_size % last.args.block_size.byte_len # 0
      /\ IsIoError(last.result, "InvalidInput") )
    => /\ last.io = <<"create">>
       /\ medium.exists
       /\ BLen(Bytes(medium)) = 0
       /\ ~LastStore.live

\* a rejected new_writer that created a medium that was not there
C22_Witness ==
    /\ last.op = "new_writer"
    /\ last.args.expected_size >= last.args.block_size.byte_len
    /\ IsIoError(last.result, "InvalidInput")
    /\ ~last.args.existed
    /\ medium.exists

\* a rejected new_writer that emptied a medium that held bytes
C22_WitnessTruncated ==
    /\ last.op = "new_writer"
    /\ last.args.expected_size >= last.args.block_size.byte_len
    /\ IsIoError(last.result, "InvalidInput")
    /\ last.args.existed
    /\ last.medium_changed
    /\ BLen(Bytes(medium)) = 0

\* C23: a probe leaves the store's block size, its length and the medium's
\* bytes as they were; a probe that fails with ProbeBufferNotEqBlockSize or
\* ProbeOffsetOutOfBounds also leaves the cursor and the output buffer as they
\* were, and the cursor moves only in a probe that has passed both checks and
\* made its seek.
C23_ProbeFrame ==
    [][ (last = Idle /\ last'.op = "probe")
        => LET s == last'.s
           IN  /\ stores'[s].live
               /\ stores'[s].block_size = stores[s].block_size
               /\ stores'[s].big_key_length = stores[s].big_key_length
               /\ medium' = medium
               /\ ( \/ IsErr(last'.result, "ProbeBufferNotEqBlockSize")
                    \/ IsErr(last'.result, "ProbeOffsetOutOfBounds") )
                  => /\ stores'[s].big_key_file = stores[s].big_key_file
                     /\ last'.out = Zeros(last'.args.buf_len)
               /\ stores'[s].big_key_file # stores[s].big_key_file
                  => /\ last'.args.buf_len = stores[s].block_size.byte_len
                     /\ "seek" \in {last'.io[k] : k \in 1..Len(last'.io)} ]_vars

\* a probe that failed with ProbeOffsetOutOfBounds on a store whose cursor an
\* earlier probe had moved off the start
C23_Witness ==
    /\ ReaderCall("probe")
    /\ IsErr(last.result, "ProbeOffsetOutOfBounds")
    /\ LastStore.big_key_file.pos > 0

\* a probe that moved the cursor
C23_WitnessMoved ==
    /\ ReaderCall("probe")
    /\ IsOk(last.result)
    /\ LastStore.big_key_file.pos > 0

\* C24: every BlockSize of the catalog (the six constants and the entries of
\* the BLOCKS table), and so the block size of every store, has byte_len > 0
\* and bit_len = 8 * byte_len.
C24_BitLenIsEightByteLen ==
    LET WellFormed(b) == b.byte_len > 0 /\ b.bit_len = 8 * b.byte_len
    IN  /\ \A b \in {BLOCK_8, BLOCK_32, BLOCK_64, BLOCK_512, BLOCK_4096, BLOCK_4K} :
              WellFormed(b)
        /\ \A i \in 1..Len(BLOCKS) : WellFormed(BLOCKS[i])
        /\ \A s \in StoreIds : stores[s].live => WellFormed(DiskStorage_block_size(stores[s]))

\* a store of the largest block size of the catalog
C24_Witness ==
    \E s \in StoreIds :
        /\ stores[s].live
        /\ DiskStorage_block_size(stores[s]) = BLOCKS[Len(BLOCKS)]
        /\ DiskStorage_block_size(stores[s]).bit_len = 32768

====
